---------------------------- MODULE Spec2Model ----------------------------
(***************************************************************************)
(* ASCII comment-banner generator (apps/gradio_app.py).                    *)
(*                                                                         *)
(* Python strings are modelled as sequences of one-character strings, so   *)
(* that len(), concatenation, str.ljust/rjust/center, str.join and repr()  *)
(* are computed character by character.  A character outside ASCII, and   *)
(* the backquote, is written by its code point ("U+2011" is one character).*)
(*                                                                         *)
(* The state is the frame of one call: the arguments as passed (args),     *)
(* the locals of make_banner under their source names, the returned text   *)
(* (result) or the raised exception (err).  A second entry point calls     *)
(* _repeat_pattern directly (rp, rp_out).                                  *)
(***************************************************************************)
EXTENDS Integers, Sequences, FiniteSets, TLC

VARIABLES pc, args, rp,
          start, end, usable, width, height,
          border_line, inner, text_line, empty_line,
          pad_total, pad_top, pad_bottom, lines,
          result, err, rp_out

vars == <<pc, args, rp, start, end, usable, width, height,
          border_line, inner, text_line, empty_line,
          pad_total, pad_top, pad_bottom, lines, result, err, rp_out>>

(***************************************************************************)
(* Bounds of the explored inputs.                                          *)
(***************************************************************************)
MaxUsable  == 3     \* requested widths: up to MaxUsable content characters
MaxHeight  == 5     \* requested heights: -1, 0 and 2 .. MaxHeight
MaxCaption == 3     \* caption lengths: 0 .. MaxCaption
MaxFiller  == 2     \* filler lengths: 0 .. MaxFiller
MaxKey     == 1     \* lengths of the unregistered style keys: 0 .. MaxKey
MaxPattern == 3     \* _repeat_pattern called directly: pattern lengths
MaxLength  == 5     \* _repeat_pattern called directly: lengths -1 .. MaxLength

(***************************************************************************)
(* COMMENT_STYLES: the items of the dict literal in source order.  A dict  *)
(* literal that repeats a key keeps the value of the last item.            *)
(***************************************************************************)
StyleItems == <<
  [key |-> <<"#", " ", "(", "s", "h", ",", " ", "P", "y", "t", "h", "o", "n", ",", " ", "R", "u", "b", "y", ",", " ", "e", "t", "c", ".", ")">>,
   start |-> <<"#">>, end |-> <<"#">>],
  [key |-> <<"/", "/", " ", "(", "C", "U+2011", "f", "a", "m", "i", "l", "y", ",", " ", "J", "a", "v", "a", "S", "c", "r", "i", "p", "t", ",", " ", "G", "o", ",", " ", "R", "u", "s", "t", "U+2026", ")">>,
   start |-> <<"/", "/">>, end |-> <<"/", "/">>],
  [key |-> <<";", " ", "(", "M", "A", "S", "M", "/", "T", "A", "S", "M", ",", " ", "L", "i", "s", "p", " ", "f", "a", "m", "i", "l", "i", "e", "s", ")">>,
   start |-> <<";">>, end |-> <<";">>],
  [key |-> <<"-", "-", " ", "(", "S", "Q", "L", ",", " ", "H", "a", "s", "k", "e", "l", "l", ",", " ", "A", "d", "a", ",", " ", "V", "H", "D", "L", "U+2026", ")">>,
   start |-> <<"-", "-">>, end |-> <<"-", "-">>],
  [key |-> <<"%", " ", "(", "M", "A", "T", "L", "A", "B", "/", "O", "c", "t", "a", "v", "e", ",", " ", "L", "a", "T", "e", "X", ")">>,
   start |-> <<"%">>, end |-> <<"%">>],
  [key |-> <<"'", " ", "(", "V", "B", ",", " ", "V", "B", "A", ",", " ", "V", "B", ".", "N", "E", "T", ")">>,
   start |-> <<"'">>, end |-> <<"'">>],
  [key |-> <<"U+0060", " ", "(", "l", "e", "g", "a", "c", "y", " ", "s", "h", "e", "l", "l", ")">>,
   start |-> <<"U+0060">>, end |-> <<"U+0060">>],
  [key |-> <<"R", "E", "M", " ", "(", "B", "a", "t", "c", "h", " ", "f", "i", "l", "e", "s", ")">>,
   start |-> <<"R", "E", "M">>, end |-> <<"R", "E", "M">>],
  [key |-> <<":", ":", " ", "(", "B", "a", "t", "c", "h", " ", "h", "a", "c", "k", ",", " ", "w", "o", "r", "k", "s", " ", "i", "n", " ", "P", "o", "w", "e", "r", "S", "h", "e", "l", "l", ")">>,
   start |-> <<":", ":">>, end |-> <<":", ":">>],
  [key |-> <<";", ";", " ", "(", "R", "a", "c", "k", "e", "t", ",", " ", "S", "c", "h", "e", "m", "e", ",", " ", "C", "l", "o", "j", "u", "r", "e", " ", "r", "e", "a", "d", "U+2011", "t", "i", "m", "e", " ", "c", "o", "m", "m", "e", "n", "t", ")">>,
   start |-> <<";", ";">>, end |-> <<";", ";">>],
  [key |-> <<"<", "!", "-", "-", " ", "U+2026", " ", "-", "-", ">", " ", "(", "H", "T", "M", "L", " ", "/", " ", "X", "M", "L", ")">>,
   start |-> <<"<", "!", "-", "-">>, end |-> <<"-", "-", ">">>],
  [key |-> <<"/", "*", " ", "U+2026", " ", "*", "/", " ", "(", "C", "U+2011", "s", "t", "y", "l", "e", " ", "b", "l", "o", "c", "k", ")">>,
   start |-> <<"/", "*">>, end |-> <<"*", "/">>],
  [key |-> <<"\"", "\"", "\"", " ", "U+2026", " ", "\"", "\"", "\"", " ", "(", "P", "y", "t", "h", "o", "n", " ", "d", "o", "c", "U+2011", "s", "t", "r", "i", "n", "g", ",", " ", "E", "l", "i", "x", "i", "r", " ", "m", "u", "l", "t", "i", "U+2011", "l", "i", "n", "e", " ", "s", "t", "r", "i", "n", "g", ")">>,
   start |-> <<"\"", "\"", "\"">>, end |-> <<"\"", "\"", "\"">>],
  [key |-> <<"-", "-", "[", "[", " ", "U+2026", " ", "]", "]", " ", "(", "L", "u", "a", " ", "b", "l", "o", "c", "k", " ", "c", "o", "m", "m", "e", "n", "t", ")">>,
   start |-> <<"-", "-", "[", "[">>, end |-> <<"]", "]">>],
  [key |-> <<"#", "=", " ", "U+2026", " ", "=", "#", " ", "(", "J", "u", "l", "i", "a", " ", "b", "l", "o", "c", "k", " ", "c", "o", "m", "m", "e", "n", "t", ")">>,
   start |-> <<"#", "=">>, end |-> <<"=", "#">>],
  [key |-> <<"#", "|", " ", "U+2026", " ", "|", "#", " ", "(", "C", "l", "o", "j", "u", "r", "e", " ", "/", " ", "C", "L", "i", "s", "p", " ", "/", " ", "R", "a", "c", "k", "e", "t", " ", "b", "l", "o", "c", "k", ")">>,
   start |-> <<"#", "|">>, end |-> <<"|", "#">>],
  [key |-> <<"<", "#", " ", "U+2026", " ", "#", ">", " ", "(", "P", "o", "w", "e", "r", "S", "h", "e", "l", "l", " ", "b", "l", "o", "c", "k", " ", "c", "o", "m", "m", "e", "n", "t", ")">>,
   start |-> <<"<", "#">>, end |-> <<"#", ">">>],
  [key |-> <<"=", "b", "e", "g", "i", "n", " ", "U+2026", " ", "=", "e", "n", "d", " ", "(", "R", "u", "b", "y", " ", "b", "l", "o", "c", "k", " ", "c", "o", "m", "m", "e", "n", "t", ")">>,
   start |-> <<"=", "b", "e", "g", "i", "n">>, end |-> <<"=", "e", "n", "d">>],
  [key |-> <<"#", " ", "(", "P", "y", "t", "h", "o", "n", " ", "l", "i", "n", "e", " ", "c", "o", "m", "m", "e", "n", "t", ")">>,
   start |-> <<"#">>, end |-> <<"#">>],
  [key |-> <<"\"", "\"", "\"", " ", "(", "P", "y", "t", "h", "o", "n", " ", "t", "r", "i", "p", "l", "e", "U+2011", "q", "u", "o", "t", "e", " ", "d", "o", "c", "U+2011", "s", "t", "r", "i", "n", "g", ")">>,
   start |-> <<"\"", "\"", "\"">>, end |-> <<"\"", "\"", "\"">>],
  [key |-> <<"#", " ", "(", "R", "u", "b", "y", " ", "l", "i", "n", "e", " ", "c", "o", "m", "m", "e", "n", "t", ")">>,
   start |-> <<"#">>, end |-> <<"#">>],
  [key |-> <<"=", "b", "e", "g", "i", "n", "/", "=", "e", "n", "d", " ", "(", "R", "u", "b", "y", " ", "b", "l", "o", "c", "k", " ", "c", "o", "m", "m", "e", "n", "t", ")">>,
   start |-> <<"=", "b", "e", "g", "i", "n">>, end |-> <<"=", "e", "n", "d">>],
  [key |-> <<"R", "E", "M", " ", "(", "P", "o", "w", "e", "r", "S", "h", "e", "l", "l", " ", "l", "i", "n", "e", " ", "c", "o", "m", "m", "e", "n", "t", ")">>,
   start |-> <<"#">>, end |-> <<"#">>],
  [key |-> <<"<", "#", " ", "U+2026", " ", "#", ">", " ", "(", "P", "o", "w", "e", "r", "S", "h", "e", "l", "l", " ", "b", "l", "o", "c", "k", " ", "c", "o", "m", "m", "e", "n", "t", ")">>,
   start |-> <<"<", "#">>, end |-> <<"#", ">">>],
  [key |-> <<"'", " ", "(", "S", "Q", "L", " ", "s", "i", "n", "g", "l", "e", "U+2011", "q", "u", "o", "t", "e", " ", "c", "o", "m", "m", "e", "n", "t", " ", "U+2013", " ", "r", "a", "r", "e", "l", "y", " ", "u", "s", "e", "d", ")">>,
   start |-> <<"'">>, end |-> <<"'">>],
  [key |-> <<"-", "-", " ", "(", "A", "d", "a", " ", "l", "i", "n", "e", " ", "c", "o", "m", "m", "e", "n", "t", ")">>,
   start |-> <<"-", "-">>, end |-> <<"-", "-">>],
  [key |-> <<"-", "-", " ", "(", "C", "O", "B", "O", "L", " ", "c", "o", "m", "m", "e", "n", "t", " ", "U+2013", " ", "c", "o", "l", "u", "m", "n", " ", "7", ")">>,
   start |-> <<"-", "-">>, end |-> <<"-", "-">>],
  [key |-> <<"U+0060", " ", "(", "T", "c", "l", " ", "c", "o", "m", "m", "e", "n", "t", " ", "U+2013", " ", "b", "a", "c", "k", "U+2011", "t", "i", "c", "k", " ", "r", "a", "r", "e", "l", "y", " ", "u", "s", "e", "d", ")">>,
   start |-> <<"U+0060">>, end |-> <<"U+0060">>],
  [key |-> <<"/", "*", " ", "U+2026", " ", "*", "/", " ", "(", "C", "S", "S", " ", "/", " ", "L", "e", "s", "s", " ", "/", " ", "S", "a", "s", "s", " ", "S", "C", "S", "S", ")">>,
   start |-> <<"/", "*">>, end |-> <<"*", "/">>],
  [key |-> <<"/", "*", " ", "U+2026", " ", "*", "/", " ", "(", "G", "r", "a", "p", "h", "Q", "L", " ", "S", "D", "L", " ", "U+2013", " ", "s", "a", "m", "e", " ", "a", "s", " ", "C", "U+2011", "s", "t", "y", "l", "e", ")">>,
   start |-> <<"/", "*">>, end |-> <<"*", "/">>],
  [key |-> <<"#", " ", "(", "P", "o", "w", "e", "r", "S", "h", "e", "l", "l", " ", "l", "i", "n", "e", " ", "c", "o", "m", "m", "e", "n", "t", " ", "U+2013", " ", "a", "l", "i", "a", "s", " ", "f", "o", "r", " ", "'", "-", "-", "'", ")">>,
   start |-> <<"#">>, end |-> <<"#">>],
  [key |-> <<"<", "!", "-", "-", " ", "U+2026", " ", "-", "-", ">", " ", "(", "M", "a", "r", "k", "d", "o", "w", "n", " ", "U+2013", " ", "H", "T", "M", "L", " ", "c", "o", "m", "m", "e", "n", "t", " ", "i", "n", "s", "i", "d", "e", " ", "M", "D", ")">>,
   start |-> <<"<", "!", "-", "-">>, end |-> <<"-", "-", ">">>],
  [key |-> <<"<", "!", "-", "-", " ", "U+2026", " ", "-", "-", ">", " ", "(", "A", "s", "c", "i", "i", "d", "o", "c", " ", "c", "o", "m", "m", "e", "n", "t", ")">>,
   start |-> <<"<", "!", "-", "-">>, end |-> <<"-", "-", ">">>]
>>

StyleKeys == {StyleItems[i].key : i \in 1..Len(StyleItems)}

\* the dict: each key with the (start, end) of the last item that has it
COMMENT_STYLES ==
  [style \in StyleKeys |->
     LET last == CHOOSE i \in 1..Len(StyleItems) :
                   /\ StyleItems[i].key = style
                   /\ \A j \in (i + 1)..Len(StyleItems) :
                        StyleItems[j].key # style
     IN  <<StyleItems[last].start, StyleItems[last].end>>]

\* "key in COMMENT_STYLES": the lookup of line 99 succeeds
KnownStyle(style) == style \in StyleKeys

(***************************************************************************)
(* String helpers of the Python runtime used by the code.                  *)
(***************************************************************************)
Spaces(n) == [i \in 1..n |-> " "]       \* " " * n  (empty for n <= 0)

\* variant: a left-justification that cuts the string to the field
LjustTruncating(s, w) ==
  IF Len(s) >= w THEN SubSeq(s, 1, w) ELSE s \o Spaces(w - Len(s))

\* str.ljust(w): pad on the right up to w, never truncate
Ljust(s, w) == IF Len(s) >= w THEN s ELSE s \o Spaces(w - Len(s))

\* str.rjust(w): pad on the left up to w, never truncate
Rjust(s, w) == IF Len(s) >= w THEN s ELSE Spaces(w - Len(s)) \o s

\* variant: a centring that always puts the odd space after the string
CenterTrailing(s, w) ==
  IF Len(s) >= w THEN s
  ELSE LET marg == w - Len(s)
       IN  Spaces(marg \div 2) \o s \o Spaces(marg - (marg \div 2))

\* str.center(w): marg = w - len; left = marg/2 + (marg & w & 1)
Center(s, w) ==
  IF Len(s) >= w THEN s
  ELSE LET marg == w - Len(s)
           left == (marg \div 2) + (IF marg % 2 = 1 /\ w % 2 = 1 THEN 1 ELSE 0)
       IN  Spaces(left) \o s \o Spaces(marg - left)

\* repr() of a str: quote with ' unless the string has a ' and no ";
\* escape the backslash, the quote in use, and the control characters
HasChar(s, c) == \E i \in 1..Len(s) : s[i] = c

ReprQuote(s) == IF HasChar(s, "'") /\ ~HasChar(s, "\"") THEN "\"" ELSE "'"

ReprChar(c, quote) ==
  IF c = quote \/ c = "\\" THEN <<"\\", c>>
  ELSE IF c = "\n" THEN <<"\\", "n">>
  ELSE IF c = "\t" THEN <<"\\", "t">>
  ELSE IF c = "\r" THEN <<"\\", "r">>
  ELSE <<c>>

RECURSIVE ReprBody(_, _)
ReprBody(s, quote) ==
  IF s = <<>> THEN <<>>
  ELSE ReprChar(Head(s), quote) \o ReprBody(Tail(s), quote)

Repr(s) == <<ReprQuote(s)>> \o ReprBody(s, ReprQuote(s)) \o <<ReprQuote(s)>>

\* "\n".join(ls)
RECURSIVE Join(_)
Join(ls) ==
  IF ls = <<>> THEN <<>>
  ELSE IF Len(ls) = 1 THEN ls[1]
  ELSE ls[1] \o <<"\n">> \o Join(Tail(ls))

\* [x] * n
Times(x, n) == [i \in 1..n |-> x]

(***************************************************************************)
(* _repeat_pattern: zip(range(length), cycle(pattern)) draws one element   *)
(* of the cycle per element of the range; the cycle restarts at the first  *)
(* character after the last one.                                           *)
(***************************************************************************)
RECURSIVE ZipCycle(_, _, _, _)
ZipCycle(remaining, pattern, k, acc) ==
  IF remaining <= 0 THEN acc
  ELSE ZipCycle(remaining - 1, pattern,
                IF k = Len(pattern) THEN 1 ELSE k + 1,
                Append(acc, pattern[k]))

\* the "safe fallback" of lines 70-71
FallbackPattern(pattern) == IF pattern = <<>> THEN <<"-">> ELSE pattern

\* variant: whole copies of the pattern only, the cut last copy is dropped
RepeatWholeCopies(pattern, length) ==
  ZipCycle((length \div Len(FallbackPattern(pattern)))
             * Len(FallbackPattern(pattern)),
           FallbackPattern(pattern), 1, <<>>)

_repeat_pattern(pattern, length) ==
  ZipCycle(length, FallbackPattern(pattern), 1, <<>>)

(***************************************************************************)
(* make_banner, section by section.                                        *)
(***************************************************************************)
\* the message of the ValueError of line 101
UnsupportedPrefix ==
  <<"U","n","s","u","p","p","o","r","t","e","d"," ",
    "c","o","m","m","e","n","t"," ","s","t","y","l","e",":"," ">>

\* variant: the key formatted with str() instead of repr()
UnsupportedMessageStr(style) == UnsupportedPrefix \o style

UnsupportedMessage(style) == UnsupportedPrefix \o Repr(style)

\* lines 105-107
Usable(w, s, e) ==
  LET u == w - (Len(s) + Len(e) + 4)
  IN  IF u < 1 THEN 1 ELSE u

\* lines 105-108: the width after the "safety" branch
EffectiveWidth(w, s, e) ==
  IF w - (Len(s) + Len(e) + 4) < 1 THEN Len(s) + Len(e) + 5 ELSE w

\* line 111
BorderLine(s, e, fill, u) ==
  s \o <<" ">> \o _repeat_pattern(fill, u) \o <<" ">> \o e

\* variant: centre only when asked by name, left for anything else
InnerDefaultLeft(h, text, u) ==
  IF h = "right" THEN Rjust(text, u)
  ELSE IF h = "center" THEN Center(text, u)
  ELSE Ljust(text, u)

\* lines 114-119
Inner(h, text, u) ==
  IF h = "left" THEN Ljust(text, u)
  ELSE IF h = "right" THEN Rjust(text, u)
  ELSE Center(text, u)

\* line 121
TextLine(s, e, field) == s \o <<" ">> \o field \o <<" ">> \o e

\* variant: an empty line without the two spaces around the content
EmptyLineNoSpaces(s, e, u) == s \o Spaces(u) \o e

\* line 122
EmptyLine(s, e, u) == s \o <<" ">> \o Spaces(u) \o <<" ">> \o e

\* lines 125-126
EffectiveHeight(h) == IF h < 3 THEN 3 ELSE h

\* variant: the odd padding line of the centre goes above the caption
PadTopCeiling(v, total) ==
  IF v = "top" THEN 0
  ELSE IF v = "bottom" THEN total
  ELSE total - (total \div 2)

\* lines 129-135: pad_top
PadTop(v, total) ==
  IF v = "top" THEN 0
  ELSE IF v = "bottom" THEN total
  ELSE total \div 2

\* variant: the centre pads below as much as above, an odd line is lost
PadBottomHalf(v, total) ==
  IF v = "top" THEN total
  ELSE IF v = "bottom" THEN 0
  ELSE total \div 2

\* lines 129-135: pad_bottom
PadBottom(v, total) ==
  IF v = "top" THEN total
  ELSE IF v = "bottom" THEN 0
  ELSE total - (total \div 2)

\* lines 138-142
Assemble(border, empty, caption, top, bottom) ==
  <<border>> \o Times(empty, top) \o <<caption>> \o Times(empty, bottom)
             \o <<border>>

NoError == [type |-> "None", msg |-> <<>>]

(***************************************************************************)
(* Inputs.                                                                 *)
(***************************************************************************)
CaptionAlphabet == <<"H", "I", "!">>
FillerAlphabet  == <<"*", "~">>

Cyclic(alphabet, n) == [i \in 1..n |-> alphabet[((i - 1) % Len(alphabet)) + 1]]

Captions == {Cyclic(CaptionAlphabet, n) : n \in 0..MaxCaption}
Fillers  == {Cyclic(FillerAlphabet, n) : n \in 0..MaxFiller}
Heights  == {-1, 0} \cup (2..MaxHeight)
HAligns  == {"left", "center", "right", "both"}
VAligns  == {"top", "center", "bottom", "both"}

SeqsUpTo(S, n) == UNION {[1..k -> S] : k \in 0..n}

KeyChars    == {"a", "'", "\"", "\\", "\n"}
UnknownKeys == SeqsUpTo(KeyChars, MaxKey) \ StyleKeys
Styles      == StyleKeys \cup UnknownKeys

\* len(start) + len(end) + 4 of a style (4 when the style has no delimiters)
StyleOverhead(style) ==
  IF KnownStyle(style)
  THEN Len(COMMENT_STYLES[style][1]) + Len(COMMENT_STYLES[style][2]) + 4
  ELSE 4

\* the widths tried with a style: negative, zero, and those from the point
\* where nothing is left for the content up to MaxUsable content characters
WidthsFor(style) ==
  {-1, 0} \cup (StyleOverhead(style)..(StyleOverhead(style) + MaxUsable))

Widths == UNION {WidthsFor(style) : style \in Styles}

PatternChars == {"x", "y", "z"}
Patterns     == SeqsUpTo(PatternChars, MaxPattern)
Lengths      == (-1)..MaxLength

\* the defaults of the signature, lines 78-86 (text has none)
DefaultArgs ==
  [text |-> <<>>, width |-> 80, height |-> 5, h_align |-> "both",
   v_align |-> "both", style |-> StyleItems[1].key, filler |-> <<"-">>]

IdleRp == [pattern |-> <<>>, length |-> 0]

Unbound ==
  /\ start = <<>> /\ end = <<>> /\ usable = 0
  /\ border_line = <<>> /\ inner = <<>> /\ text_line = <<>>
  /\ empty_line = <<>> /\ pad_total = 0 /\ pad_top = 0 /\ pad_bottom = 0
  /\ lines = <<>> /\ result = <<>> /\ err = NoError /\ rp_out = <<>>

\* a call of make_banner with its parameters bound
InitBanner ==
  /\ pc = "make_banner"
  /\ args \in [text : Captions, width : Widths, height : Heights,
               h_align : HAligns, v_align : VAligns, style : Styles,
               filler : Fillers]
  /\ args.width \in WidthsFor(args.style)
  /\ width = args.width /\ height = args.height
  /\ rp = IdleRp
  /\ Unbound

\* a call of _repeat_pattern with its parameters bound
InitRepeat ==
  /\ pc = "_repeat_pattern"
  /\ rp \in [pattern : Patterns, length : Lengths]
  /\ args = DefaultArgs
  /\ width = args.width /\ height = args.height
  /\ Unbound

Init == InitBanner \/ InitRepeat

(***************************************************************************)
(* Operations.                                                             *)
(***************************************************************************)
\* lines 98-101: the lookup fails, ValueError is raised, nothing is returned
make_banner_raise ==
  /\ pc = "make_banner"
  /\ ~KnownStyle(args.style)
  /\ err' = [type |-> "ValueError", msg |-> UnsupportedMessage(args.style)]
  /\ pc' = "raised"
  /\ UNCHANGED <<args, rp, start, end, usable, width, height, border_line,
                 inner, text_line, empty_line, pad_total, pad_top,
                 pad_bottom, lines, result, rp_out>>

\* lines 98-144 with a registered style
make_banner ==
  /\ pc = "make_banner"
  /\ KnownStyle(args.style)
  /\ LET s  == COMMENT_STYLES[args.style][1]
         e  == COMMENT_STYLES[args.style][2]
         u  == Usable(args.width, s, e)
         bl == BorderLine(s, e, args.filler, u)
         in == Inner(args.h_align, args.text, u)
         tl == TextLine(s, e, in)
         el == EmptyLine(s, e, u)
         h  == EffectiveHeight(args.height)
         pt == PadTop(args.v_align, h - 3)
         pb == PadBottom(args.v_align, h - 3)
         ls == Assemble(bl, el, tl, pt, pb)
     IN  /\ start' = s /\ end' = e
         /\ usable' = u
         /\ width' = EffectiveWidth(args.width, s, e)
         /\ border_line' = bl /\ inner' = in
         /\ text_line' = tl /\ empty_line' = el
         /\ height' = h /\ pad_total' = h - 3
         /\ pad_top' = pt /\ pad_bottom' = pb
         /\ lines' = ls
         /\ result' = Join(ls)
  /\ pc' = "returned"
  /\ UNCHANGED <<args, rp, err, rp_out>>

\* lines 68-72 called on their own
repeat_pattern_call ==
  /\ pc = "_repeat_pattern"
  /\ rp_out' = _repeat_pattern(rp.pattern, rp.length)
  /\ pc' = "repeat_returned"
  /\ UNCHANGED <<args, rp, start, end, usable, width, height, border_line,
                 inner, text_line, empty_line, pad_total, pad_top,
                 pad_bottom, lines, result, err>>

Next == make_banner \/ make_banner_raise \/ repeat_pattern_call

Spec == Init /\ [][Next]_vars

(***************************************************************************)
(* Vocabulary of the properties.                                           *)
(***************************************************************************)
\* the lines of a text: what text.split("\n") returns
RECURSIVE SplitFrom(_, _, _, _)
SplitFrom(s, i, from, acc) ==
  IF i > Len(s) THEN Append(acc, SubSeq(s, from, Len(s)))
  ELSE IF s[i] = "\n"
       THEN SplitFrom(s, i + 1, i + 1, Append(acc, SubSeq(s, from, i - 1)))
       ELSE SplitFrom(s, i + 1, from, acc)

SplitLines(s) == SplitFrom(s, 1, 1, <<>>)

\* sub occurs in s as a contiguous substring
Contains(s, sub) ==
  \E i \in 0..(Len(s) - Len(sub)) :
     \A j \in 1..Len(sub) : s[i + j] = sub[j]

Max(a, b) == IF a >= b THEN a ELSE b

Returned == pc = "returned"

\* the lines of the returned text: the strings that line 144 joins.  None of
\* them holds a line break, and C9_ReturnedLines checks that result, split at
\* its line breaks, gives them back.
OutLines == lines

\* the quantities the claims name, computed from the arguments as passed
Overhead    == Len(start) + Len(end) + 4
Difference  == args.width - Overhead
ClaimUsable == IF Difference >= 1 THEN Difference ELSE 1
ClaimWidth  == IF Difference >= 1 THEN args.width ELSE Len(start) + Len(end) + 5
ClaimLines  == Max(args.height, 3)
CaptionLen  == Len(args.text)
Overflow    == Max(0, CaptionLen - ClaimUsable)
\* the caption line is the one after the top border and the upper padding
CaptionIndex == pad_top + 2

(***************************************************************************)
(* C1: for every registered style key and every width, height, alignment,  *)
(* filler and caption, every line of the text returned by make_banner has  *)
(* a length exactly equal to the effective width (the requested width when *)
(* width - (len(start)+len(end)+4) >= 1, len(start)+len(end)+5 otherwise). *)
(* The code builds start + space + usable characters + space + end, which  *)
(* is two characters short of the width it computes usable from.           *)
(***************************************************************************)
C1_AllLinesEffectiveWidth ==
  Returned =>
    LET out == OutLines
    IN  \A i \in 1..Len(out) : Len(out[i]) = ClaimWidth

(***************************************************************************)
(* C2: for every integer height (0, negative, below 3 included) and every  *)
(* vertical alignment, the returned text has max(height, 3) lines.         *)
(***************************************************************************)
C2_LineCount == Returned => Len(OutLines) = ClaimLines

\* a negative height with centre alignment yields the 3 lines
C2_Witness ==
  /\ Returned
  /\ args.height < 0
  /\ args.v_align = "center"
  /\ Len(OutLines) = 3

(***************************************************************************)
(* C3 as stated: with centre alignment and len(caption) < usable the       *)
(* caption field has floor((usable - len(caption)) / 2) spaces before the  *)
(* caption and the rest after it, for every usable width, odd or even.     *)
(***************************************************************************)
Centred == args.h_align \notin {"left", "right"}
Margin  == usable - CaptionLen

C3_ExtraSpaceTrailing ==
  (Returned /\ Centred /\ CaptionLen < usable) =>
    inner = Spaces(Margin \div 2) \o args.text
              \o Spaces(Margin - (Margin \div 2))

(***************************************************************************)
(* C3 amended: with centre alignment and len(caption) < usable the field   *)
(* is the caption between the two halves of the padding; when              *)
(* usable - len(caption) is odd the extra space is on the trailing side    *)
(* if usable is even and on the leading side if usable is odd.             *)
(***************************************************************************)
C3_ExtraSpaceByParity ==
  (Returned /\ Centred /\ CaptionLen < usable) =>
    LET half == Margin \div 2
    IN  IF Margin % 2 = 0
        THEN inner = Spaces(half) \o args.text \o Spaces(half)
        ELSE IF usable % 2 = 0
        THEN inner = Spaces(half) \o args.text \o Spaces(half + 1)
        ELSE inner = Spaces(half + 1) \o args.text \o Spaces(half)

\* an odd remainder in an odd field: the extra space leads
C3_Witness ==
  /\ Returned /\ args.h_align = "center"
  /\ CaptionLen > 0 /\ Margin > 0
  /\ Margin % 2 = 1 /\ usable % 2 = 1
  /\ inner[1] = " " /\ inner[Len(inner)] # " "

(***************************************************************************)
(* C4: for every non-empty pattern p and every length n >= 0,              *)
(* _repeat_pattern(p, n) has exactly n characters and its i-th character   *)
(* (from 0) is p[i mod len(p)]; an empty pattern behaves as "-".           *)
(***************************************************************************)
C4_RepeatPattern ==
  (pc = "repeat_returned" /\ rp.length >= 0) =>
    LET p == IF rp.pattern = <<>> THEN <<"-">> ELSE rp.pattern
    IN  /\ Len(rp_out) = rp.length
        /\ \A i \in 0..(rp.length - 1) : rp_out[i + 1] = p[(i % Len(p)) + 1]

\* a pattern that goes round more than once and is cut inside a round
C4_Witness ==
  /\ pc = "repeat_returned"
  /\ Len(rp.pattern) = 2
  /\ rp.length = 5
  /\ rp_out = <<rp.pattern[1], rp.pattern[2], rp.pattern[1], rp.pattern[2],
                rp.pattern[1]>>
  /\ rp.pattern[1] # rp.pattern[2]

(***************************************************************************)
(* C5 as stated: with a style key that is not a key of COMMENT_STYLES the  *)
(* call ends in the unknown-style error whose message contains the key,    *)
(* and returns nothing; with a registered key the error never occurs.      *)
(***************************************************************************)
Registered == args.style \in DOMAIN COMMENT_STYLES
IsBannerCall == pc \in {"make_banner", "returned", "raised"}
NothingReturned == pc # "returned" /\ result = <<>> /\ lines = <<>>

C5_MessageContainsKey ==
  /\ (IsBannerCall /\ ~Registered) =>
        /\ NothingReturned
        /\ pc = "raised" =>
             /\ err.type = "ValueError"
             /\ Contains(err.msg, args.style)
  /\ (IsBannerCall /\ Registered) => (pc # "raised" /\ err = NoError)

(***************************************************************************)
(* C5 amended: with an unregistered style key the call ends in the error   *)
(* and returns nothing, whatever the other arguments; the message is       *)
(* "Unsupported comment style: " and the key as repr() writes it, between  *)
(* quotes, so it contains the key itself whenever the key has no           *)
(* backslash, no control character and not both kinds of quote; with a     *)
(* registered key the error never occurs.                                  *)
(***************************************************************************)
WrittenAsIs(key) ==
  /\ \A i \in 1..Len(key) : key[i] \notin {"\\", "\n", "\t", "\r"}
  /\ ~(HasChar(key, "'") /\ HasChar(key, "\""))

C5_MessageQuotesKey ==
  /\ (IsBannerCall /\ ~Registered) =>
        /\ NothingReturned
        /\ pc = "make_banner" => (ENABLED make_banner_raise /\ ~ENABLED make_banner)
        /\ pc = "raised" =>
             /\ err.type = "ValueError"
             /\ SubSeq(err.msg, 1, Len(UnsupportedPrefix)) = UnsupportedPrefix
             /\ Len(err.msg) >= Len(UnsupportedPrefix) + Len(args.style) + 2
             /\ err.msg[Len(UnsupportedPrefix) + 1] \in {"'", "\""}
             /\ err.msg[Len(err.msg)] = err.msg[Len(UnsupportedPrefix) + 1]
             /\ WrittenAsIs(args.style) =>
                  /\ Len(err.msg) = Len(UnsupportedPrefix) + Len(args.style) + 2
                  /\ SubSeq(err.msg, Len(UnsupportedPrefix) + 2,
                            Len(err.msg) - 1) = args.style
  /\ (IsBannerCall /\ Registered) => (pc # "raised" /\ err = NoError)

\* the error raised for a non-empty unregistered key that repr() leaves as is
C5_Witness ==
  /\ pc = "raised"
  /\ args.style # <<>>
  /\ WrittenAsIs(args.style)
  /\ Contains(err.msg, args.style)
  /\ args.width > 0 /\ args.height > 3

(***************************************************************************)
(* C6 as stated: a horizontal alignment outside {left, center, right} or a *)
(* vertical alignment outside {top, center, bottom} makes the call fail    *)
(* with an invalid-alignment error instead of returning a banner.          *)
(***************************************************************************)
UnrecognisedH == args.h_align \notin {"left", "center", "right"}
UnrecognisedV == args.v_align \notin {"top", "center", "bottom"}

C6_UnrecognisedAlignmentFails ==
  (IsBannerCall /\ (UnrecognisedH \/ UnrecognisedV)) => pc # "returned"

(***************************************************************************)
(* C6 amended: a horizontal alignment outside {left, center, right} or a   *)
(* vertical alignment outside {top, center, bottom} (the defaults "both"   *)
(* of the signature are such values) raises no error: with a registered    *)
(* style the call returns the banner laid out as centre in that direction, *)
(* the caption between paddings that differ by at most one space, or       *)
(* between numbers of empty lines that differ by at most one.              *)
(***************************************************************************)
C6_UnrecognisedAlignmentIsCentre ==
  /\ (IsBannerCall /\ (UnrecognisedH \/ UnrecognisedV)) =>
        /\ err.type # "InvalidAlignmentError"
        /\ pc = "raised" => ~Registered
        /\ (pc = "make_banner" /\ Registered) => ENABLED make_banner
  /\ (Returned /\ UnrecognisedH /\ CaptionLen <= usable) =>
        \E before \in 0..Margin :
           /\ inner = Spaces(before) \o args.text \o Spaces(Margin - before)
           /\ 2 * before - Margin \in {-1, 0, 1}
  /\ (Returned /\ UnrecognisedV) =>
        /\ lines[pad_top + 2] = text_line
        /\ pad_top + pad_bottom + 3 = Len(lines)
        /\ pad_bottom - pad_top \in {-1, 0, 1}

\* both alignments left at "both": centred with room on every side
C6_Witness ==
  /\ Returned
  /\ args.h_align = "both" /\ args.v_align = "both"
  /\ CaptionLen > 0 /\ Margin >= 2
  /\ pad_top >= 1
  /\ inner[1] = " " /\ inner[Len(inner)] = " "

(***************************************************************************)
(* C7: for every registered style and every integer width with             *)
(* width - (len(start)+len(end)+4) < 1 the call does not fail and uses     *)
(* usable = 1 and the effective width len(start)+len(end)+5 for the border *)
(* line, the caption line and every empty line alike, the border's filler  *)
(* part being exactly 1 character; otherwise usable is the difference and  *)
(* the width is left as requested.  The lines built in the first case are  *)
(* len(start)+len(end)+3 characters long (see C1).                         *)
(***************************************************************************)
FillerPart == SubSeq(border_line, Len(start) + 2, Len(border_line) - Len(end) - 1)

C7_ClampedWidthUsed ==
  /\ (IsBannerCall /\ Registered) => pc # "raised"
  /\ Returned =>
       IF Difference < 1
       THEN /\ usable = 1
            /\ width = Len(start) + Len(end) + 5
            /\ Len(FillerPart) = 1
            /\ Len(border_line) = width
            /\ Len(empty_line) = width
            /\ Len(text_line) = width + Overflow
       ELSE /\ usable = Difference
            /\ width = args.width

(***************************************************************************)
(* C8 as stated: all lines of the returned text have the same length,      *)
(* also for a caption longer than the usable width.                        *)
(***************************************************************************)
C8_AllLinesSameLength ==
  Returned =>
    LET out == OutLines
    IN  \A i, j \in 1..Len(out) : Len(out[i]) = Len(out[j])

(***************************************************************************)
(* C8 amended: the border lines and the empty lines of the returned text   *)
(* always have the same length as each other, and the caption line has     *)
(* that length too exactly when len(caption) <= usable; a longer caption   *)
(* makes the caption line strictly longer than the others.                 *)
(***************************************************************************)
C8_SameLengthUnlessOverflow ==
  Returned =>
    LET out    == OutLines
        others == (1..Len(out)) \ {CaptionIndex}
    IN  /\ \A i, j \in others : Len(out[i]) = Len(out[j])
        /\ \A i \in others :
             IF CaptionLen <= usable
             THEN Len(out[CaptionIndex]) = Len(out[i])
             ELSE Len(out[CaptionIndex]) > Len(out[i])

\* an unclamped width, a caption shorter than the field, padding on both sides
C8_Witness ==
  /\ Returned
  /\ Difference > 1
  /\ 0 < CaptionLen /\ CaptionLen < usable
  /\ pad_top > 0 /\ pad_bottom > 0
  /\ LET out == OutLines
     IN  \A i, j \in 1..Len(out) : Len(out[i]) = Len(out[j])

(***************************************************************************)
(* C9: with padTotal = max(height, 3) - 3 the output is, in this order,    *)
(* one border line, padTop empty lines, exactly one caption line,          *)
(* padBottom empty lines and one border line identical to the first,       *)
(* joined by single newlines with no trailing newline, where               *)
(* (padTop, padBottom) is (0, padTotal) for top, (padTotal, 0) for bottom  *)
(* and (floor(padTotal / 2), padTotal - floor(padTotal / 2)) for centre.   *)
(***************************************************************************)
ClaimPadTotal == ClaimLines - 3
ClaimPadTop ==
  IF args.v_align = "top" THEN 0
  ELSE IF args.v_align = "bottom" THEN ClaimPadTotal
  ELSE ClaimPadTotal \div 2

C9_ReturnedLines ==
  Returned =>
    LET out == SplitLines(result)
        n   == Len(out)
        top == ClaimPadTop
        bot == ClaimPadTotal - ClaimPadTop
    IN  /\ out = lines
        /\ n = 1 + top + 1 + bot + 1
        /\ out[1] = border_line /\ out[n] = out[1]
        /\ \A i \in 2..(top + 1) : out[i] = empty_line
        /\ out[top + 2] = text_line
        /\ \A i \in (top + 3)..(n - 1) : out[i] = empty_line
        /\ args.v_align = "top" => top = 0 /\ bot = ClaimPadTotal
        /\ args.v_align = "bottom" => top = ClaimPadTotal /\ bot = 0
        /\ args.v_align \notin {"top", "bottom"} => bot - top \in {0, 1}
        /\ Len(result) > 0 /\ result[Len(result)] # "\n"
        /\ Cardinality({i \in 1..Len(result) : result[i] = "\n"}) = n - 1
        /\ border_line = start \o <<" ">> \o FillerPart \o <<" ">> \o end
        /\ empty_line = start \o <<" ">> \o Spaces(usable) \o <<" ">> \o end
        /\ text_line # empty_line => CaptionLen > 0

\* centre with an odd number of padding lines: the extra one is below
C9_Witness ==
  /\ Returned
  /\ args.v_align = "center"
  /\ ClaimPadTotal % 2 = 1
  /\ CaptionLen > 0
  /\ lines[pad_top + 2] = text_line
  /\ pad_bottom = pad_top + 1
  /\ Len(lines) = 2 * pad_top + 4

(***************************************************************************)
(* C10: the caption is never truncated: for left alignment the field is    *)
(* the caption followed by max(0, usable - len(caption)) spaces, for right *)
(* alignment that many spaces followed by the caption, and for every       *)
(* alignment with len(caption) > usable the field is the unchanged         *)
(* caption, so that the caption line is start, space, caption, space, end  *)
(* and is longer than the border and empty lines by len(caption) - usable. *)
(***************************************************************************)
C10_CaptionNeverTruncated ==
  Returned =>
    LET pad == Max(0, usable - CaptionLen)
    IN  /\ Contains(inner, args.text)
        /\ args.h_align = "left" => inner = args.text \o Spaces(pad)
        /\ args.h_align = "right" => inner = Spaces(pad) \o args.text
        /\ CaptionLen > usable =>
             /\ inner = args.text
             /\ text_line = start \o <<" ">> \o args.text \o <<" ">> \o end
             /\ Len(text_line) - Len(border_line) = CaptionLen - usable
             /\ Len(text_line) - Len(empty_line) = CaptionLen - usable
             /\ \A i \in 1..Len(lines) :
                  i # pad_top + 2 =>
                    Len(lines[pad_top + 2]) - Len(lines[i]) = CaptionLen - usable

\* a left-aligned caption longer than the field, with padding lines around
C10_Witness ==
  /\ Returned
  /\ args.h_align = "left"
  /\ CaptionLen > usable + 1
  /\ Len(lines) > 3
  /\ Len(text_line) > Len(border_line)

=============================================================================
